---- MODULE Spec2Model ----
(***************************************************************************)
(* Model of src/src/jsonEditorProvider.ts: the JsonEditorProvider custom    *)
(* text editor, which keeps a text document and a webview in sync.          *)
(*                                                                          *)
(* Texts are TLA+ strings; Char(s, i) is the i-th character.  The JSON      *)
(* functions are modelled on the alphabet the inputs are drawn from:        *)
(*   { } [ ] : , " \ space newline, the digits, and the letters of          *)
(*   "invalid".                                                             *)
(* That alphabet has no '-', '.', 'e', 'E', so every number is a            *)
(* non-negative integer literal, and it cannot spell true, false or null,   *)
(* nor the escapes \b, \f, \r, \t, \u, \/.                                  *)
(***************************************************************************)
EXTENDS Integers, Sequences, FiniteSets, TLC

(***************************************************************************)
(* Bounds of the model.                                                     *)
(***************************************************************************)
\* Every string of at most MaxLen characters over EnumChars is a validator input.
MaxLen == 3

(***************************************************************************)
(* Characters and strings.                                                  *)
(***************************************************************************)
Char(s, i) == SubSeq(s, i, i)

Digits == {"0", "1", "2", "3", "4", "5", "6", "7", "8", "9"}

\* The whitespace of the JSON grammar (JSON.parse skips these between tokens).
JsonWhitespace == {" ", "\n", "\t", "\r"}

\* The characters String.prototype.trim removes that the alphabet can spell.
TrimWhitespace == {" ", "\n", "\t", "\r", "\f"}

\* text.trim().length === 0
IsBlank(s) == \A i \in 1..Len(s) : Char(s, i) \in TrimWhitespace

RECURSIVE Spaces(_)
Spaces(n) == IF n <= 0 THEN "" ELSE " " \o Spaces(n - 1)

(***************************************************************************)
(* JavaScript values, as JSON.parse builds them.                            *)
(*   [t |-> "num", num |-> digits]       a number (its decimal digits)      *)
(*   [t |-> "str", str |-> string]       a string                           *)
(*   [t |-> "arr", items |-> <<v, ..>>]  an array                           *)
(*   [t |-> "obj", members |-> <<[key |-> k, val |-> v], ..>>]              *)
(*       an object, its own properties in enumeration order                 *)
(***************************************************************************)
NumVal(d) == [t |-> "num", num |-> d]
StrVal(s) == [t |-> "str", str |-> s]
ArrVal(items) == [t |-> "arr", items |-> items]
ObjVal(members) == [t |-> "obj", members |-> members]

\* The result of a parse that throws SyntaxError.
ParseFail == [ok |-> FALSE, val |-> StrVal(""), next |-> 0]
ParseOk(v, next) == [ok |-> TRUE, val |-> v, next |-> next]

\* A property key that is an array index ("0", "7", "12"): such keys are
\* enumerated first, in ascending numeric order.  Keys of ten digits or more
\* (some of which are indices too) are beyond the inputs' lengths.
IsIndexKey(k) ==
    /\ Len(k) >= 1
    /\ Len(k) <= 9
    /\ \A i \in 1..Len(k) : Char(k, i) \in Digits
    /\ (Len(k) > 1 => Char(k, 1) # "0")

DigitValue(c) ==
    CASE c = "0" -> 0 [] c = "1" -> 1 [] c = "2" -> 2 [] c = "3" -> 3
      [] c = "4" -> 4 [] c = "5" -> 5 [] c = "6" -> 6 [] c = "7" -> 7
      [] c = "8" -> 8 [] c = "9" -> 9

RECURSIVE IndexValue(_)
IndexValue(k) ==
    IF Len(k) = 0 THEN 0
    ELSE 10 * IndexValue(SubSeq(k, 1, Len(k) - 1)) + DigitValue(Char(k, Len(k)))

\* Where a new own property named k is enumerated among members.
InsertPosition(members, k) ==
    IF IsIndexKey(k)
    THEN 1 + Cardinality({i \in 1..Len(members) :
                 /\ IsIndexKey(members[i].key)
                 /\ IndexValue(members[i].key) < IndexValue(k)})
    ELSE Len(members) + 1

\* CreateDataProperty(obj, k, v): a key already present keeps its place and
\* takes the new value.
PutMember(members, k, v) ==
    IF \E i \in 1..Len(members) : members[i].key = k
    THEN [i \in 1..Len(members) |->
             IF members[i].key = k THEN [key |-> k, val |-> v] ELSE members[i]]
    ELSE LET p == InsertPosition(members, k)
         IN  SubSeq(members, 1, p - 1) \o <<[key |-> k, val |-> v]>>
                 \o SubSeq(members, p, Len(members))

(***************************************************************************)
(* JSON.parse                                                               *)
(***************************************************************************)
RECURSIVE SkipWhitespace(_, _)
SkipWhitespace(s, i) ==
    IF i <= Len(s) /\ Char(s, i) \in JsonWhitespace
    THEN SkipWhitespace(s, i + 1)
    ELSE i

\* The characters of a string literal from position i on, acc being the value
\* read so far; the opening quote is at i - 1 or before.
RECURSIVE ScanString(_, _, _)
ScanString(s, i, acc) ==
    IF i > Len(s) THEN ParseFail
    ELSE LET c == Char(s, i) IN
         IF c = "\"" THEN ParseOk(StrVal(acc), i + 1)
         ELSE IF c = "\\" THEN
             IF i + 1 > Len(s) THEN ParseFail
             ELSE LET e == Char(s, i + 1) IN
                  IF e = "\"" THEN ScanString(s, i + 2, acc \o "\"")
                  ELSE IF e = "\\" THEN ScanString(s, i + 2, acc \o "\\")
                  ELSE IF e = "n" THEN ScanString(s, i + 2, acc \o "\n")
                  ELSE ParseFail
         ELSE IF c \in {"\n", "\t", "\r", "\f"} THEN ParseFail
         ELSE ScanString(s, i + 1, acc \o c)

\* The digits of an integer literal that starts at i with a non-zero digit.
RECURSIVE ScanDigits(_, _)
ScanDigits(s, i) ==
    IF i <= Len(s) /\ Char(s, i) \in Digits THEN ScanDigits(s, i + 1) ELSE i

ParseNumber(s, i) ==
    IF Char(s, i) = "0" THEN ParseOk(NumVal("0"), i + 1)
    ELSE LET j == ScanDigits(s, i) IN ParseOk(NumVal(SubSeq(s, i, j - 1)), j)

RECURSIVE ParseValue(_, _)
RECURSIVE ParseElements(_, _, _)
RECURSIVE ParseMembers(_, _, _)

\* The elements of an array from position i on (a value is due at i).
ParseElements(s, i, acc) ==
    LET r == ParseValue(s, i) IN
    IF ~r.ok THEN ParseFail
    ELSE LET j == SkipWhitespace(s, r.next)
             items == Append(acc, r.val)
         IN  IF j > Len(s) THEN ParseFail
             ELSE IF Char(s, j) = "," THEN ParseElements(s, j + 1, items)
             ELSE IF Char(s, j) = "]" THEN ParseOk(ArrVal(items), j + 1)
             ELSE ParseFail

\* The members of an object from position i on (a key is due at i).
ParseMembers(s, i, acc) ==
    LET j == SkipWhitespace(s, i) IN
    IF j > Len(s) \/ Char(s, j) # "\"" THEN ParseFail
    ELSE LET k == ScanString(s, j + 1, "") IN
         IF ~k.ok THEN ParseFail
         ELSE LET c == SkipWhitespace(s, k.next) IN
              IF c > Len(s) \/ Char(s, c) # ":" THEN ParseFail
              ELSE LET r == ParseValue(s, c + 1) IN
                   IF ~r.ok THEN ParseFail
                   ELSE LET e == SkipWhitespace(s, r.next)
                            members == PutMember(acc, k.val.str, r.val)
                        IN  IF e > Len(s) THEN ParseFail
                            ELSE IF Char(s, e) = ","
                                 THEN ParseMembers(s, e + 1, members)
                            ELSE IF Char(s, e) = "}"
                                 THEN ParseOk(ObjVal(members), e + 1)
                            ELSE ParseFail

ParseValue(s, i) ==
    LET j == SkipWhitespace(s, i) IN
    IF j > Len(s) THEN ParseFail
    ELSE LET c == Char(s, j) IN
         IF c = "{" THEN
             LET m == SkipWhitespace(s, j + 1) IN
             IF m <= Len(s) /\ Char(s, m) = "}" THEN ParseOk(ObjVal(<<>>), m + 1)
             ELSE ParseMembers(s, j + 1, <<>>)
         ELSE IF c = "[" THEN
             LET m == SkipWhitespace(s, j + 1) IN
             IF m <= Len(s) /\ Char(s, m) = "]" THEN ParseOk(ArrVal(<<>>), m + 1)
             ELSE ParseElements(s, j + 1, <<>>)
         ELSE IF c = "\"" THEN ScanString(s, j + 1, "")
         ELSE IF c \in Digits THEN ParseNumber(s, j)
         ELSE ParseFail

\* JSON.parse(text): one value, whitespace around it, nothing else.
JsonParse(text) ==
    LET r == ParseValue(text, 1) IN
    IF r.ok /\ SkipWhitespace(text, r.next) = Len(text) + 1 THEN r ELSE ParseFail

(***************************************************************************)
(* JSON.stringify(value, undefined, 4)                                      *)
(***************************************************************************)
\* The indentation argument of JSON.stringify in setChangesToDocument.
IndentWidth == 4

EscapeChar(c) ==
    CASE c = "\"" -> "\\\""
      [] c = "\\" -> "\\\\"
      [] c = "\n" -> "\\n"
      [] OTHER -> c

RECURSIVE EscapeString(_)
EscapeString(s) ==
    IF Len(s) = 0 THEN ""
    ELSE EscapeChar(Char(s, 1)) \o EscapeString(SubSeq(s, 2, Len(s)))

QuoteString(s) == "\"" \o EscapeString(s) \o "\""

RECURSIVE Stringify(_, _)
RECURSIVE StringifyItems(_, _, _)
RECURSIVE StringifyMembers(_, _, _)

\* items[i..], each on its own line at the given nesting level.
StringifyItems(items, i, level) ==
    Spaces(IndentWidth * level) \o Stringify(items[i], level)
        \o (IF i = Len(items) THEN ""
            ELSE ",\n" \o StringifyItems(items, i + 1, level))

StringifyMembers(members, i, level) ==
    Spaces(IndentWidth * level) \o QuoteString(members[i].key) \o ": "
        \o Stringify(members[i].val, level)
        \o (IF i = Len(members) THEN ""
            ELSE ",\n" \o StringifyMembers(members, i + 1, level))

\* The text of value v, which itself stands at nesting level `level`.
Stringify(v, level) ==
    CASE v.t = "num" -> v.num
      [] v.t = "str" -> QuoteString(v.str)
      [] v.t = "arr" ->
            IF Len(v.items) = 0 THEN "[]"
            ELSE "[\n" \o StringifyItems(v.items, 1, level + 1)
                     \o "\n" \o Spaces(IndentWidth * level) \o "]"
      [] v.t = "obj" ->
            IF Len(v.members) = 0 THEN "{}"
            ELSE "{\n" \o StringifyMembers(v.members, 1, level + 1)
                     \o "\n" \o Spaces(IndentWidth * level) \o "}"

JsonStringify(v) == Stringify(v, 0)

(***************************************************************************)
(* getContentAsJson and the text setChangesToDocument writes.               *)
(***************************************************************************)
\* A plausible slip: the content is returned as it is, not parsed.
GetContentAsJsonUnparsed(content) ==
    IF IsBlank(content) THEN [ok |-> TRUE, val |-> StrVal("{}")]
    ELSE IF JsonParse(content).ok THEN [ok |-> TRUE, val |-> StrVal(content)]
    ELSE [ok |-> FALSE, val |-> StrVal("")]

\* getContentAsJson(content): ok is FALSE when it throws (and then it has set
\* isValidJson to false); for blank content it returns the string '{}'.
GetContentAsJson(content) ==
    IF IsBlank(content) THEN [ok |-> TRUE, val |-> StrVal("{}")]
    ELSE LET r == JsonParse(content) IN
         IF r.ok THEN [ok |-> TRUE, val |-> r.val]
         ELSE [ok |-> FALSE, val |-> StrVal("")]

\* const text = JSON.stringify(this.getContentAsJson(content), undefined, 4)
EditText(content) == JsonStringify(GetContentAsJson(content).val)

(***************************************************************************)
(* The document, as setChangesToDocument addresses it.                      *)
(***************************************************************************)
\* document.lineCount
LineCount(text) == 1 + Cardinality({i \in 1..Len(text) : Char(text, i) = "\n"})

\* The number of characters before the 0-based line `line` of text.
RECURSIVE LineStart(_, _)
LineStart(text, line) ==
    IF line = 0 THEN 0
    ELSE LET prev == LineStart(text, line - 1)
             nl == CHOOSE i \in (prev + 1)..Len(text) :
                      /\ Char(text, i) = "\n"
                      /\ \A j \in (prev + 1)..(i - 1) : Char(text, j) # "\n"
         IN  nl

\* The offset of position (line, character), the position adjusted to the
\* document as the host adjusts it: past the last line is the end of the text,
\* past the end of a line is the end of that line.
OffsetAt(text, line, character) ==
    IF line >= LineCount(text) THEN Len(text)
    ELSE LET start == LineStart(text, line)
             stop == IF line + 1 = LineCount(text) THEN Len(text)
                     ELSE LineStart(text, line + 1) - 1
         IN  IF start + character > stop THEN stop ELSE start + character

\* A plausible slip: the range ends at the start of the last line.
FullRangeToLastLine(text) ==
    [startLine |-> 0, startChar |-> 0, endLine |-> LineCount(text) - 1, endChar |-> 0]

\* new vscode.Range(0, 0, document.lineCount, 0)
FullRange(text) ==
    [startLine |-> 0, startChar |-> 0, endLine |-> LineCount(text), endChar |-> 0]

\* The text after the host applies edit.replace(uri, range, newText).
ApplyReplace(text, range, newText) ==
    LET from == OffsetAt(text, range.startLine, range.startChar)
        to == OffsetAt(text, range.endLine, range.endChar)
    IN  SubSeq(text, 1, from) \o newText \o SubSeq(text, to + 1, Len(text))

(***************************************************************************)
(* One session: resolveCustomTextEditor for one document and one panel.     *)
(***************************************************************************)
VARIABLES
    docText,              \* document.getText()
    undoStack,            \* the text the host's Undo would restore, if any
    redoStack,            \* the text the host's Redo would restore, if any
    events,               \* document-changed events emitted, not yet dispatched
    visible,              \* webviewPanel.visible
    isBuffer,             \* let isBuffer
    isUpdateFromWebview,  \* let isUpdateFromWebview
    isValidJson,          \* this.isValidJson
    jsonErrorMsg,         \* let jsonErrorMsg: "undefined", "active" or "disposed"
    posted,               \* the messages the last step posted to the webview
    applied,              \* the replace operations the last step issued
    viewContent,          \* the content last posted to the view or last
                          \* committed for it
    last,                 \* the last step taken
    suppressed,           \* mutations dispatched while hidden and not flushed
    echoDue,              \* an edit was committed for the view, and no change
                          \* of the document has been dispatched since
    rejected,             \* the content the view submitted last failed validation
    echoes                \* Plain changes not posted because isUpdateFromWebview
                          \* was set, since the view's last updateFromWebview

VARIABLES
    vHist,                \* a content and the texts written for it, in turn
    vRejected,            \* getContentAsJson threw for the last of vHist
    editors,              \* window.visibleTextEditors: editor id -> file shown
    closeRequests,        \* editors whose close was requested, not yet done
    duplicated,           \* more than one visible editor showed the document,
                          \* and since then only close requests have completed
    disposed,             \* the panel was closed: onDidDispose has run
    issued                \* the listener the last step ran, and the editors
                          \* it asked the host to close

VARIABLES
    sText,                \* for each session, its document's text
    sNotice,              \* for each session, its jsonErrorMsg
    aloneValid,           \* for each session, the isValidJson of a provider
                          \* that received this session's messages only
    aloneNotice,          \* for each session, its jsonErrorMsg in that case
    sLast                 \* the last message handled: the session, the
                          \* message, whether an error left the handler, and
                          \* whether one would have with the session alone

validatorVars == <<vHist, vRejected>>
providerVars == <<sText, sNotice, aloneValid, aloneNotice, sLast>>
editorVars == <<editors, closeRequests, duplicated, disposed, issued>>

sessionVars == <<docText, undoStack, redoStack, events, visible, isBuffer,
                 isUpdateFromWebview, isValidJson, jsonErrorMsg, posted,
                 applied, viewContent, last, suppressed, echoDue, rejected,
                 echoes>>

\* Bounds of the session model.
MaxQueue == 2
MaxSuppressed == 2
MaxEchoes == 2

\* The content a view submits.
Contents == {"{\"a\":1}", "", "{invalid"}
\* The text a plain text editor leaves in the document.
ExternalTexts == {"{\"a\":2}"}
\* The text of the document when the editor is opened.
InitialTexts == {"{\"a\":1}"}

\* TextDocumentChangeReason.Undo, .Redo, and e.reason === undefined.
ReasonUndo == 1
ReasonRedo == 2
ReasonNone == 0

DocUri == "doc"
OtherUri == "other"

Message(type, text) == [type |-> type, text |-> text]
Event(uri, nChanges, reason, fromView) ==
    [uri |-> uri, nChanges |-> nChanges, reason |-> reason, fromView |-> fromView]
NoEvent == Event("", 0, ReasonNone, FALSE)
\* A step: the handler that ran (op), the content or event it was given,
\* whether an error left it, and for a view state change the number of
\* mutations the hidden view had missed.
Step(op, content, event, threw, missed) ==
    [op |-> op, content |-> content, event |-> event, threw |-> threw,
     missed |-> missed]
HostStep == Step("host", "", NoEvent, FALSE, 0)

\* The host's undo and redo histories are modelled one step deep: each holds
\* the text its command would restore, if any.
Push(stack, text) == <<text>>

Bump(n) == IF n < MaxSuppressed THEN n + 1 ELSE n
BumpEchoes(n) == IF n < MaxEchoes THEN n + 1 ELSE n

\* The view takes the text of the last message posted to it.
Delivered(msgs, content) == IF msgs = <<>> THEN content ELSE msgs[Len(msgs)].text

\* A plausible slip: the text is pretty-printed before it is posted.
InitialMessageCanonical(text) ==
    <<Message("vuejsoneditor.updateFromExtension",
              IF JsonParse(text).ok THEN JsonStringify(JsonParse(text).val) ELSE text)>>

\* The initial message, lines 183-187: document.getText() as it is.
InitialMessage(text) == <<Message("vuejsoneditor.updateFromExtension", text)>>

\* After construction: lines 183-187 have posted the document's text.
SessionInit ==
    /\ docText \in InitialTexts
    /\ undoStack = <<>>
    /\ redoStack = <<>>
    /\ events = <<>>
    /\ visible = TRUE
    /\ isBuffer = FALSE
    /\ isUpdateFromWebview = FALSE
    /\ isValidJson = TRUE
    /\ jsonErrorMsg = "undefined"
    /\ posted = InitialMessage(docText)
    /\ applied = <<>>
    /\ viewContent = docText
    /\ last = Step("open", "", NoEvent, FALSE, 0)
    /\ suppressed = 0
    /\ echoDue = FALSE
    /\ rejected = FALSE
    /\ echoes = 0

(***************************************************************************)
(* The host: edits made outside the session, undo, redo.                    *)
(***************************************************************************)
\* A plain text editor changes the document.
ExternalEdit(text) ==
    /\ Len(events) < MaxQueue
    /\ text # docText
    /\ docText' = text
    /\ undoStack' = Push(undoStack, docText)
    /\ redoStack' = <<>>
    /\ events' = Append(events, Event(DocUri, 1, ReasonNone, FALSE))
    /\ posted' = <<>>
    /\ applied' = <<>>
    /\ last' = HostStep
    /\ UNCHANGED <<visible, isBuffer, isUpdateFromWebview, isValidJson,
                   jsonErrorMsg, viewContent, suppressed, echoDue, rejected,
                   echoes>>
    /\ UNCHANGED <<validatorVars, editorVars, providerVars>>

Undo ==
    /\ Len(events) < MaxQueue
    /\ undoStack # <<>>
    /\ docText' = undoStack[Len(undoStack)]
    /\ undoStack' = SubSeq(undoStack, 1, Len(undoStack) - 1)
    /\ redoStack' = Push(redoStack, docText)
    /\ events' = Append(events, Event(DocUri, 1, ReasonUndo, FALSE))
    /\ posted' = <<>>
    /\ applied' = <<>>
    /\ last' = HostStep
    /\ UNCHANGED <<visible, isBuffer, isUpdateFromWebview, isValidJson,
                   jsonErrorMsg, viewContent, suppressed, echoDue, rejected,
                   echoes>>
    /\ UNCHANGED <<validatorVars, editorVars, providerVars>>

Redo ==
    /\ Len(events) < MaxQueue
    /\ redoStack # <<>>
    /\ docText' = redoStack[Len(redoStack)]
    /\ redoStack' = SubSeq(redoStack, 1, Len(redoStack) - 1)
    /\ undoStack' = Push(undoStack, docText)
    /\ events' = Append(events, Event(DocUri, 1, ReasonRedo, FALSE))
    /\ posted' = <<>>
    /\ applied' = <<>>
    /\ last' = HostStep
    /\ UNCHANGED <<visible, isBuffer, isUpdateFromWebview, isValidJson,
                   jsonErrorMsg, viewContent, suppressed, echoDue, rejected,
                   echoes>>
    /\ UNCHANGED <<validatorVars, editorVars, providerVars>>

(***************************************************************************)
(* The session's handlers, each as the function from what it reads to what  *)
(* it writes and sends.                                                     *)
(***************************************************************************)
\* A plausible slip: a Plain change is forwarded whoever made it.
OnDidChangeTextDocumentNoEchoCheck(e, panelVisible, buffer, fromWebview) ==
    IF e.uri = DocUri /\ e.nChanges # 0
    THEN IF ~panelVisible
         THEN [isBuffer |-> TRUE, isUpdateFromWebview |-> fromWebview, post |-> <<>>]
         ELSE IF e.reason = ReasonUndo
         THEN [isBuffer |-> buffer, isUpdateFromWebview |-> fromWebview,
               post |-> <<"vuejsoneditor.undo">>]
         ELSE IF e.reason = ReasonRedo
         THEN [isBuffer |-> buffer, isUpdateFromWebview |-> fromWebview,
               post |-> <<"vuejsoneditor.redo">>]
         ELSE [isBuffer |-> buffer, isUpdateFromWebview |-> FALSE,
               post |-> <<"vuejsoneditor.updateFromExtension">>]
    ELSE [isBuffer |-> buffer, isUpdateFromWebview |-> fromWebview, post |-> <<>>]

\* A plausible slip: the echo check is made before the switch, for every
\* reason.
OnDidChangeTextDocumentEchoCheckFirst(e, panelVisible, buffer, fromWebview) ==
    IF e.uri = DocUri /\ e.nChanges # 0
    THEN IF ~panelVisible
         THEN [isBuffer |-> TRUE, isUpdateFromWebview |-> fromWebview, post |-> <<>>]
         ELSE IF fromWebview
         THEN [isBuffer |-> buffer, isUpdateFromWebview |-> FALSE, post |-> <<>>]
         ELSE IF e.reason = ReasonUndo
         THEN [isBuffer |-> buffer, isUpdateFromWebview |-> fromWebview,
               post |-> <<"vuejsoneditor.undo">>]
         ELSE IF e.reason = ReasonRedo
         THEN [isBuffer |-> buffer, isUpdateFromWebview |-> fromWebview,
               post |-> <<"vuejsoneditor.redo">>]
         ELSE [isBuffer |-> buffer, isUpdateFromWebview |-> fromWebview,
               post |-> <<"vuejsoneditor.updateFromExtension">>]
    ELSE [isBuffer |-> buffer, isUpdateFromWebview |-> fromWebview, post |-> <<>>]

\* A plausible slip: the visibility test is inverted.
OnDidChangeTextDocumentVisibleBuffered(e, panelVisible, buffer, fromWebview) ==
    IF e.uri = DocUri /\ e.nChanges # 0
    THEN IF panelVisible
         THEN [isBuffer |-> TRUE, isUpdateFromWebview |-> fromWebview, post |-> <<>>]
         ELSE IF e.reason = ReasonUndo
         THEN [isBuffer |-> buffer, isUpdateFromWebview |-> fromWebview,
               post |-> <<"vuejsoneditor.undo">>]
         ELSE IF e.reason = ReasonRedo
         THEN [isBuffer |-> buffer, isUpdateFromWebview |-> fromWebview,
               post |-> <<"vuejsoneditor.redo">>]
         ELSE [isBuffer |-> buffer, isUpdateFromWebview |-> FALSE,
               post |-> IF ~fromWebview
                        THEN <<"vuejsoneditor.updateFromExtension">>
                        ELSE <<>>]
    ELSE [isBuffer |-> buffer, isUpdateFromWebview |-> fromWebview, post |-> <<>>]

\* A plausible slip: isUpdateFromWebview is not reset once an echo is dropped.
OnDidChangeTextDocumentKeepsFlag(e, panelVisible, buffer, fromWebview) ==
    IF e.uri = DocUri /\ e.nChanges # 0
    THEN IF ~panelVisible
         THEN [isBuffer |-> TRUE, isUpdateFromWebview |-> fromWebview, post |-> <<>>]
         ELSE IF e.reason = ReasonUndo
         THEN [isBuffer |-> buffer, isUpdateFromWebview |-> fromWebview,
               post |-> <<"vuejsoneditor.undo">>]
         ELSE IF e.reason = ReasonRedo
         THEN [isBuffer |-> buffer, isUpdateFromWebview |-> fromWebview,
               post |-> <<"vuejsoneditor.redo">>]
         ELSE [isBuffer |-> buffer, isUpdateFromWebview |-> fromWebview,
               post |-> IF ~fromWebview
                        THEN <<"vuejsoneditor.updateFromExtension">>
                        ELSE <<>>]
    ELSE [isBuffer |-> buffer, isUpdateFromWebview |-> fromWebview, post |-> <<>>]

\* onDidChangeTextDocument(e): post lists the types of the messages sent.
OnDidChangeTextDocument(e, panelVisible, buffer, fromWebview) ==
    IF e.uri = DocUri /\ e.nChanges # 0
    THEN IF ~panelVisible
         THEN [isBuffer |-> TRUE, isUpdateFromWebview |-> fromWebview, post |-> <<>>]
         ELSE IF e.reason = ReasonUndo
         THEN [isBuffer |-> buffer, isUpdateFromWebview |-> fromWebview,
               post |-> <<"vuejsoneditor.undo">>]
         ELSE IF e.reason = ReasonRedo
         THEN [isBuffer |-> buffer, isUpdateFromWebview |-> fromWebview,
               post |-> <<"vuejsoneditor.redo">>]
         ELSE IF e.reason = ReasonNone
         THEN [isBuffer |-> buffer, isUpdateFromWebview |-> FALSE,
               post |-> IF ~fromWebview
                        THEN <<"vuejsoneditor.updateFromExtension">>
                        ELSE <<>>]
         ELSE [isBuffer |-> buffer, isUpdateFromWebview |-> fromWebview, post |-> <<>>]
    ELSE [isBuffer |-> buffer, isUpdateFromWebview |-> fromWebview, post |-> <<>>]

\* A plausible slip: isBuffer is not reset after the flush.
OnDidChangeViewStateKeepsBuffer(panelVisible, buffer) ==
    IF panelVisible /\ buffer
    THEN [isBuffer |-> buffer, post |-> <<"vuejsoneditor.updateFromExtension">>]
    ELSE [isBuffer |-> buffer, post |-> <<>>]

\* onDidChangeViewState, the panel's visible being panelVisible by now.
OnDidChangeViewState(panelVisible, buffer) ==
    IF panelVisible /\ buffer
    THEN [isBuffer |-> FALSE, post |-> <<"vuejsoneditor.updateFromExtension">>]
    ELSE [isBuffer |-> buffer, post |-> <<>>]

\* A plausible slip: content that does not parse is written as it is.
SetChangesToDocumentUnchecked(text, content) ==
    IF ~GetContentAsJson(content).ok
    THEN [threw |-> FALSE,
          edits |-> <<[range |-> FullRange(text), text |-> content]>>]
    ELSE [threw |-> FALSE,
          edits |-> <<[range |-> FullRange(text), text |-> EditText(content)]>>]

\* setChangesToDocument(document, content): the replace operations it hands to
\* applyEdit; threw when getContentAsJson threw.
SetChangesToDocument(text, content) ==
    IF ~GetContentAsJson(content).ok
    THEN [threw |-> TRUE, edits |-> <<>>]
    ELSE [threw |-> FALSE,
          edits |-> <<[range |-> FullRange(text), text |-> EditText(content)]>>]

\* Lines 147-150, reached when setChangesToDocument has returned.
ClearNotice(valid, errorMsg) ==
    IF ~valid
    THEN IF errorMsg = "undefined"
         THEN \* jsonErrorMsg.dispose() on undefined: TypeError
              [isValidJson |-> valid, jsonErrorMsg |-> errorMsg, threw |-> TRUE]
         ELSE [isValidJson |-> TRUE, jsonErrorMsg |-> "disposed", threw |-> FALSE]
    ELSE [isValidJson |-> valid, jsonErrorMsg |-> errorMsg, threw |-> FALSE]

\* onDidReceiveMessage, case 'vuejsoneditor.updateFromWebview', set being what
\* setChangesToDocument did.  When it threw, getContentAsJson has set
\* isValidJson to false and the error leaves the handler.
AfterSetChanges(set, valid, errorMsg) ==
    IF set.threw
    THEN [isValidJson |-> FALSE, jsonErrorMsg |-> errorMsg, edits |-> <<>>,
          threw |-> TRUE]
    ELSE [isValidJson |-> ClearNotice(valid, errorMsg).isValidJson,
          jsonErrorMsg |-> ClearNotice(valid, errorMsg).jsonErrorMsg,
          edits |-> set.edits,
          threw |-> ClearNotice(valid, errorMsg).threw]

OnUpdateFromWebview(content, text, valid, errorMsg) ==
    AfterSetChanges(SetChangesToDocument(text, content), valid, errorMsg)

\* onDidReceiveMessage, case 'vuejsoneditor.noValidJson'.
OnNoValidJson(valid, errorMsg) ==
    IF valid
    THEN [isValidJson |-> FALSE, jsonErrorMsg |-> "active"]
    ELSE [isValidJson |-> valid, jsonErrorMsg |-> errorMsg]

\* webview.postMessage({type, text: document.getText()}), once for each type.
Messages(types, text) == [i \in 1..Len(types) |-> Message(types[i], text)]

(***************************************************************************)
(* The session's steps.                                                     *)
(***************************************************************************)
\* The host dispatches the oldest document-changed event to the listener.
DocumentChanged ==
    /\ events # <<>>
    /\ LET e == Head(events)
           r == OnDidChangeTextDocument(e, visible, isBuffer, isUpdateFromWebview)
           msgs == Messages(r.post, docText)
       IN  /\ events' = Tail(events)
           /\ isBuffer' = r.isBuffer
           /\ isUpdateFromWebview' = r.isUpdateFromWebview
           /\ posted' = msgs
           /\ viewContent' = Delivered(msgs, viewContent)
           /\ last' = Step("documentChanged", "", e, FALSE, 0)
           /\ suppressed' = IF e.uri = DocUri /\ e.nChanges # 0 /\ ~visible
                            THEN Bump(suppressed)
                            ELSE suppressed
           /\ echoDue' = IF e.uri = DocUri /\ e.nChanges # 0 THEN FALSE ELSE echoDue
           /\ echoes' = IF /\ e.uri = DocUri /\ e.nChanges # 0
                           /\ visible
                           /\ e.reason = ReasonNone
                           /\ isUpdateFromWebview
                           /\ r.post = <<>>
                        THEN BumpEchoes(echoes)
                        ELSE echoes
    /\ applied' = <<>>
    /\ UNCHANGED <<docText, undoStack, redoStack, visible, isValidJson,
                   jsonErrorMsg, rejected>>
    /\ UNCHANGED <<validatorVars, editorVars, providerVars>>

\* Events the listener receives besides the changes of the session's document:
\* a change of another document, and an event of this document without
\* content changes.
IgnoredEvents == {Event(OtherUri, 1, ReasonNone, FALSE), Event(DocUri, 0, ReasonNone, FALSE)}

OtherDocumentChanged(e) ==
    /\ LET r == OnDidChangeTextDocument(e, visible, isBuffer, isUpdateFromWebview)
           msgs == Messages(r.post, docText)
       IN  /\ isBuffer' = r.isBuffer
           /\ isUpdateFromWebview' = r.isUpdateFromWebview
           /\ posted' = msgs
           /\ viewContent' = Delivered(msgs, viewContent)
    /\ applied' = <<>>
    /\ last' = Step("documentChanged", "", e, FALSE, 0)
    /\ UNCHANGED <<docText, undoStack, redoStack, events, visible, isValidJson,
                   jsonErrorMsg, suppressed, echoDue, rejected, echoes>>
    /\ UNCHANGED <<validatorVars, editorVars, providerVars>>

\* The panel's view state changes (visibility, or focus alone) and the
\* listener runs.
ViewStateChanged(panelVisible) ==
    /\ visible' = panelVisible
    /\ LET r == OnDidChangeViewState(panelVisible, isBuffer)
           msgs == Messages(r.post, docText)
       IN  /\ isBuffer' = r.isBuffer
           /\ posted' = msgs
           /\ viewContent' = Delivered(msgs, viewContent)
    /\ suppressed' = IF panelVisible THEN 0 ELSE suppressed
    /\ applied' = <<>>
    /\ last' = Step("viewState", "", NoEvent, FALSE, suppressed)
    /\ UNCHANGED <<docText, undoStack, redoStack, events, isUpdateFromWebview,
                   isValidJson, jsonErrorMsg, echoDue, rejected, echoes>>
    /\ UNCHANGED <<validatorVars, editorVars, providerVars>>

\* The host applies the replace operations a handler issued and emits the
\* document-changed event; r is what the handler wrote.
Commit(content, r) ==
    /\ r.edits # <<>> => Len(events) < MaxQueue
    /\ isValidJson' = r.isValidJson
    /\ jsonErrorMsg' = r.jsonErrorMsg
    /\ applied' = r.edits
    /\ docText' = IF r.edits # <<>>
                  THEN ApplyReplace(docText, r.edits[1].range, r.edits[1].text)
                  ELSE docText
    /\ undoStack' = IF r.edits # <<>> THEN Push(undoStack, docText) ELSE undoStack
    /\ redoStack' = IF r.edits # <<>> THEN <<>> ELSE redoStack
    /\ events' = IF r.edits # <<>>
                 THEN Append(events, Event(DocUri, 1, ReasonNone, TRUE))
                 ELSE events
    /\ viewContent' = IF r.edits # <<>> THEN content ELSE viewContent
    /\ last' = Step("fromView", content, NoEvent, r.threw, 0)
    /\ echoDue' = IF r.edits # <<>> THEN TRUE ELSE echoDue
    /\ rejected' = (r.edits = <<>>)

\* The view sends 'vuejsoneditor.updateFromWebview' with content.
FromView(content) ==
    /\ isUpdateFromWebview' = TRUE
    /\ echoes' = 0
    /\ Commit(content, OnUpdateFromWebview(content, docText, isValidJson, jsonErrorMsg))
    /\ posted' = <<>>
    /\ UNCHANGED <<visible, isBuffer, suppressed>>
    /\ UNCHANGED <<validatorVars, editorVars, providerVars>>

\* The view sends 'vuejsoneditor.noValidJson'.
NoValidJson ==
    /\ LET r == OnNoValidJson(isValidJson, jsonErrorMsg)
       IN  /\ isValidJson' = r.isValidJson
           /\ jsonErrorMsg' = r.jsonErrorMsg
    /\ posted' = <<>>
    /\ applied' = <<>>
    /\ last' = Step("noValidJson", "", NoEvent, FALSE, 0)
    /\ UNCHANGED <<docText, undoStack, redoStack, events, visible, isBuffer,
                   isUpdateFromWebview, viewContent, suppressed, echoDue, rejected,
                   echoes>>
    /\ UNCHANGED <<validatorVars, editorVars, providerVars>>

(***************************************************************************)
(* The validator alone: a content goes through setChangesToDocument's text, *)
(* and the text written goes through it again.                              *)
(***************************************************************************)
EnumChars == {"{", "}", "[", "]", "\"", "1", "0", " ", ","}

RECURSIVE StringsOfLength(_)
StringsOfLength(n) ==
    IF n = 0 THEN {""}
    ELSE {s \o c : s \in StringsOfLength(n - 1), c \in EnumChars}

Samples ==
    {"{\"a\":1}", "{\"d\":2}", "{invalid", " \n ", "\"{}\"", "[1, 2,[ ]]",
     "{\"d\":1,\"1\":2,\"d\":[{}],\"0\":\"a\\\"\\n\"}", "{\"2\":1,\"10\":2}",
     "\"\\\\\"", "{ \"a\" : { \"v\" : [ 10 ] } }"}

ValidatorInputs == UNION {StringsOfLength(n) : n \in 0..MaxLen} \cup Samples

ValidatorInit ==
    /\ vHist \in {<<s>> : s \in ValidatorInputs}
    /\ vRejected = FALSE

ValidatorIdle ==
    /\ vHist = <<"">>
    /\ vRejected = FALSE

\* setChangesToDocument computes the text for the last text of vHist.
Normalize ==
    /\ ~vRejected
    /\ Len(vHist) < 3
    /\ GetContentAsJson(vHist[Len(vHist)]).ok
    /\ vHist' = Append(vHist, EditText(vHist[Len(vHist)]))
    /\ UNCHANGED <<vRejected, sessionVars, editorVars, providerVars>>

\* getContentAsJson throws for the last text of vHist.
Reject ==
    /\ ~vRejected
    /\ Len(vHist) < 3
    /\ ~GetContentAsJson(vHist[Len(vHist)]).ok
    /\ vRejected' = TRUE
    /\ UNCHANGED <<vHist, sessionVars, editorVars, providerVars>>

(***************************************************************************)
(* The visible text editors and the session's onDidChangeVisibleTextEditors *)
(* listener.                                                                *)
(***************************************************************************)
\* Bounds of the editors model.
MaxEditors == 3
MaxRequests == 3

DocFile == "doc.form"
OtherFile == "other.txt"
NotVisible == "-"

EditorIds == 1..MaxEditors
VisibleIds(eds) == {i \in EditorIds : eds[i] # NotVisible}
ShowingDocument(eds) == {i \in EditorIds : eds[i] = DocFile}

RECURSIVE InOrder(_)
InOrder(ids) ==
    IF ids = {} THEN <<>>
    ELSE LET least == CHOOSE i \in ids : \A j \in ids : i <= j
         IN  <<least>> \o InOrder(ids \ {least})

\* onDidChangeVisibleTextEditors: the editors it asks the host to close
\* (showTextDocument, then workbench.action.closeActiveEditor), in order.
OnDidChangeVisibleTextEditors(eds) ==
    IF Cardinality(VisibleIds(eds)) > 1
    THEN InOrder(ShowingDocument(eds))
    ELSE <<>>

\* onDidDispose: the editors it asks the host to close, in order.  Only
\* changeDocumentSubscription is disposed: the listener of
\* onDidChangeVisibleTextEditors stays registered.
OnDidDispose(eds) == InOrder(ShowingDocument(eds))

Issued(by, ids) == [by |-> by, ids |-> ids]

\* What the rest of resolveCustomTextEditor leaves: lines 189-194 show the
\* document in a text editor beside the panel when the option is set and no
\* text editor is visible.
EditorsInit ==
    /\ \E config \in BOOLEAN, before \in {NotVisible, OtherFile} :
          editors = [i \in EditorIds |->
                        IF i = 1
                        THEN IF config /\ before = NotVisible THEN DocFile ELSE before
                        ELSE NotVisible]
    /\ closeRequests = <<>>
    /\ duplicated = FALSE
    /\ disposed = FALSE
    /\ issued = Issued("none", <<>>)

EditorsIdle ==
    /\ editors = [i \in EditorIds |-> NotVisible]
    /\ closeRequests = <<>>
    /\ duplicated = FALSE
    /\ disposed = FALSE
    /\ issued = Issued("none", <<>>)

\* The visible editors change to eds and the listener runs.
VisibleEditorsChanged(eds) ==
    /\ editors' = eds
    /\ closeRequests' = closeRequests \o OnDidChangeVisibleTextEditors(eds)
    /\ issued' = Issued("visibleTextEditors", OnDidChangeVisibleTextEditors(eds))

\* The user opens file in a text editor.
OpenEditor(id, file) ==
    /\ editors[id] = NotVisible
    /\ Len(closeRequests) + Cardinality(ShowingDocument(editors)) < MaxRequests
    /\ VisibleEditorsChanged([editors EXCEPT ![id] = file])
    /\ duplicated' = (Cardinality(ShowingDocument(editors')) > 1)
    /\ UNCHANGED <<disposed, sessionVars, validatorVars, providerVars>>

\* The user closes a text editor.
CloseEditor(id) ==
    /\ editors[id] # NotVisible
    /\ Len(closeRequests) + Cardinality(ShowingDocument(editors)) <= MaxRequests
    /\ VisibleEditorsChanged([editors EXCEPT ![id] = NotVisible])
    /\ duplicated' = (Cardinality(ShowingDocument(editors')) > 1)
    /\ UNCHANGED <<disposed, sessionVars, validatorVars, providerVars>>

\* The host completes the oldest close request: the editor it was issued
\* for closes, if it is still visible.
CloseRequested ==
    /\ closeRequests # <<>>
    /\ IF editors[Head(closeRequests)] # NotVisible
       THEN /\ editors' = [editors EXCEPT ![Head(closeRequests)] = NotVisible]
            /\ closeRequests' =
                  Tail(closeRequests) \o OnDidChangeVisibleTextEditors(editors')
            /\ issued' = Issued("visibleTextEditors",
                                OnDidChangeVisibleTextEditors(editors'))
       ELSE /\ editors' = editors
            /\ closeRequests' = Tail(closeRequests)
            /\ issued' = Issued("none", <<>>)
    /\ UNCHANGED <<duplicated, disposed, sessionVars, validatorVars, providerVars>>

\* The panel is closed and onDidDispose runs.
PanelDisposed ==
    /\ ~disposed
    /\ Len(closeRequests) + Cardinality(ShowingDocument(editors)) <= MaxRequests
    /\ disposed' = TRUE
    /\ closeRequests' = closeRequests \o OnDidDispose(editors)
    /\ issued' = Issued("dispose", OnDidDispose(editors))
    /\ UNCHANGED <<editors, duplicated, sessionVars, validatorVars, providerVars>>

(***************************************************************************)
(* One provider, two sessions on two documents: the messages their views    *)
(* send.  this.isValidJson is the provider's; jsonErrorMsg is each          *)
(* session's.                                                               *)
(***************************************************************************)
Sessions == {1, 2}

NoMessage == [session |-> 0, op |-> "open", threw |-> FALSE, aloneThrew |-> FALSE]

\* Both editors have been opened, no message received yet.
SessionsInit ==
    /\ sText \in [Sessions -> InitialTexts]
    /\ sNotice = [s \in Sessions |-> "undefined"]
    /\ aloneValid = [s \in Sessions |-> TRUE]
    /\ aloneNotice = [s \in Sessions |-> "undefined"]
    /\ sLast = NoMessage

SessionsIdle ==
    /\ sText = [s \in Sessions |-> ""]
    /\ sNotice = [s \in Sessions |-> "undefined"]
    /\ aloneValid = [s \in Sessions |-> TRUE]
    /\ aloneNotice = [s \in Sessions |-> "undefined"]
    /\ sLast = NoMessage

\* What the other session variables are while only messages are handled.
SessionsFrame ==
    UNCHANGED <<docText, undoStack, redoStack, events, visible, isBuffer,
                isUpdateFromWebview, jsonErrorMsg, posted, applied,
                viewContent, last, suppressed, echoDue, rejected, echoes,
                validatorVars, editorVars>>

\* Session s has handled 'vuejsoneditor.updateFromWebview': r is what its
\* handler wrote, a what it would have written with the session alone.
SessionCommit(s, r, a) ==
    /\ isValidJson' = r.isValidJson
    /\ sNotice' = [sNotice EXCEPT ![s] = r.jsonErrorMsg]
    /\ sText' = [sText EXCEPT ![s] =
                    IF r.edits # <<>>
                    THEN ApplyReplace(sText[s], r.edits[1].range, r.edits[1].text)
                    ELSE sText[s]]
    /\ aloneValid' = [aloneValid EXCEPT ![s] = a.isValidJson]
    /\ aloneNotice' = [aloneNotice EXCEPT ![s] = a.jsonErrorMsg]
    /\ sLast' = [session |-> s, op |-> "fromView", threw |-> r.threw,
                 aloneThrew |-> a.threw]

\* The view of session s sends 'vuejsoneditor.updateFromWebview'.
SessionFromView(s, content) ==
    /\ SessionCommit(s,
                     OnUpdateFromWebview(content, sText[s], isValidJson, sNotice[s]),
                     OnUpdateFromWebview(content, sText[s], aloneValid[s],
                                         aloneNotice[s]))
    /\ SessionsFrame

\* The view of session s sends 'vuejsoneditor.noValidJson'.
SessionNoValidJson(s) ==
    /\ isValidJson' = OnNoValidJson(isValidJson, sNotice[s]).isValidJson
    /\ sNotice' = [sNotice EXCEPT ![s] =
                      OnNoValidJson(isValidJson, sNotice[s]).jsonErrorMsg]
    /\ aloneValid' = [aloneValid EXCEPT ![s] =
                         OnNoValidJson(aloneValid[s], aloneNotice[s]).isValidJson]
    /\ aloneNotice' = [aloneNotice EXCEPT ![s] =
                          OnNoValidJson(aloneValid[s], aloneNotice[s]).jsonErrorMsg]
    /\ sLast' = [session |-> s, op |-> "noValidJson", threw |-> FALSE,
                 aloneThrew |-> FALSE]
    /\ UNCHANGED sText
    /\ SessionsFrame

vars == <<sessionVars, validatorVars, editorVars, providerVars>>

Init == SessionInit /\ ValidatorIdle /\ EditorsIdle /\ SessionsIdle

Next ==
    \/ \E text \in ExternalTexts : ExternalEdit(text)
    \/ Undo
    \/ Redo
    \/ DocumentChanged
    \/ \E e \in IgnoredEvents : OtherDocumentChanged(e)
    \/ \E v \in BOOLEAN : ViewStateChanged(v)
    \/ \E content \in Contents : FromView(content)
    \/ NoValidJson

Spec == Init /\ [][Next]_vars

ValidatorNext == Normalize \/ Reject

InitValidator == SessionInit /\ ValidatorInit /\ EditorsIdle /\ SessionsIdle

SpecValidator == InitValidator /\ [][ValidatorNext]_vars

EditorsNext ==
    \/ \E id \in EditorIds, file \in {DocFile, OtherFile} : OpenEditor(id, file)
    \/ \E id \in EditorIds : CloseEditor(id)
    \/ CloseRequested
    \/ PanelDisposed

InitEditors == SessionInit /\ ValidatorIdle /\ EditorsInit /\ SessionsIdle

SpecEditors == InitEditors /\ [][EditorsNext]_vars

SessionsNext ==
    \/ \E s \in Sessions, content \in Contents : SessionFromView(s, content)
    \/ \E s \in Sessions : SessionNoValidJson(s)

InitSessions == SessionInit /\ ValidatorIdle /\ EditorsIdle /\ SessionsInit

SpecSessions == InitSessions /\ [][SessionsNext]_vars

(***************************************************************************)
(* Properties.                                                              *)
(***************************************************************************)
\* The last step dispatched a change of the session's document to the listener.
ChangeDispatched ==
    /\ last.op = "documentChanged"
    /\ last.event.uri = DocUri
    /\ last.event.nChanges # 0

ContentIsJson(content) == JsonParse(content).ok
CanonicalText(content) == JsonStringify(JsonParse(content).val)

\* Two texts represent the same JSON value.
SameJson(a, b) ==
    IF ContentIsJson(a) /\ ContentIsJson(b)
    THEN CanonicalText(a) = CanonicalText(b)
    ELSE a = b

\* C1: whenever the view is visible and every emitted event has been
\* dispatched, the content last posted to the view, or last committed for it,
\* represents the same JSON value as the document's text.
C1_Convergence == (visible /\ events = <<>>) => SameJson(viewContent, docText)

\* C2: when an edit was committed for a FromView message and the next change
\* of the document that is dispatched is the one that edit caused, the listener
\* posts nothing for it.
C2_EchoSuppressed ==
    [][(DocumentChanged /\ echoDue /\ Head(events).fromView) => posted' = <<>>]_vars

C2_Witness ==
    /\ ChangeDispatched
    /\ last.event.fromView
    /\ visible
    /\ ~isUpdateFromWebview
    /\ posted = <<>>
    /\ viewContent # docText

\* C3 as claimed: an Undo or Redo change of the document always makes the
\* listener post a message with the document's text, the view visible or not.
C3_UndoRedoAlwaysResync ==
    (ChangeDispatched /\ last.event.reason \in {ReasonUndo, ReasonRedo})
        => (Len(posted) = 1 /\ posted[1].text = docText)

\* C3 as amended: while the view is visible, an Undo or Redo change of the
\* document makes the listener post one message with the document's text,
\* isUpdateFromWebview set or not, and a change for which nothing is posted is
\* a Plain one; while the view is hidden nothing is posted for an Undo or Redo
\* change and isBuffer is set.
C3_UndoRedoResyncWhenVisible ==
    /\ (ChangeDispatched /\ last.event.reason = ReasonUndo /\ visible)
          => posted = <<Message("vuejsoneditor.undo", docText)>>
    /\ (ChangeDispatched /\ last.event.reason = ReasonRedo /\ visible)
          => posted = <<Message("vuejsoneditor.redo", docText)>>
    /\ (ChangeDispatched /\ visible /\ posted = <<>>)
          => last.event.reason = ReasonNone
    /\ (ChangeDispatched /\ last.event.reason \in {ReasonUndo, ReasonRedo}
            /\ ~visible)
          => (posted = <<>> /\ isBuffer)

C3_Witness ==
    /\ ChangeDispatched
    /\ last.event.reason = ReasonUndo
    /\ visible
    /\ isUpdateFromWebview
    /\ posted = <<Message("vuejsoneditor.undo", docText)>>

\* C4: nothing is posted while the view is hidden; when the view becomes
\* visible after one or more changes of the document were dispatched while it
\* was hidden, exactly one message is posted, with the document's text of
\* that moment; a view state change with no such change missed posts nothing.
C4_Buffering ==
    /\ ~visible => posted = <<>>
    /\ (last.op = "viewState" /\ visible /\ last.missed >= 1)
          => posted = <<Message("vuejsoneditor.updateFromExtension", docText)>>
    /\ (last.op = "viewState" /\ last.missed = 0) => posted = <<>>

C4_Witness ==
    /\ last.op = "viewState"
    /\ visible
    /\ last.missed >= 2
    /\ events # <<>>
    /\ posted = <<Message("vuejsoneditor.updateFromExtension", docText)>>

\* C5: a FromView message whose content is not blank and is not JSON issues no
\* replace operation and leaves the document's text as it was.
C5_FailClosed ==
    [][(/\ last'.op = "fromView"
        /\ ~IsBlank(last'.content)
        /\ ~ContentIsJson(last'.content))
          => (applied' = <<>> /\ docText' = docText /\ events' = events)]_vars

C5_Witness ==
    /\ last.op = "fromView"
    /\ last.content = "{invalid"
    /\ applied = <<>>
    /\ docText # last.content

\* C6: a FromView message whose content is JSON issues exactly one replace
\* operation, and once it is applied the document's text is the 4-space
\* pretty-printed form of the content.
C6_CommitReplacesAll ==
    (last.op = "fromView" /\ ContentIsJson(last.content))
        => (Len(applied) = 1 /\ docText = CanonicalText(last.content))

C6_Witness ==
    /\ last.op = "fromView"
    /\ last.content = "{\"a\":1}"
    /\ undoStack = <<"{\"a\":2}">>
    /\ docText = "{\n    \"a\": 1\n}"

\* C7: from a FromView message whose content fails validation until the next
\* FromView message with valid content, the session has an active notice.
C7_NoticeWhileRejected == rejected => jsonErrorMsg = "active"

\* C8: once more than one visible editor has shown the document and the close
\* requests issued for that have completed, exactly one visible editor shows
\* the document.
C8_ExactlyOneRemains ==
    (duplicated /\ closeRequests = <<>>)
        => Cardinality(ShowingDocument(editors)) = 1

\* C9: for blank content the text written to the document is {}.
C9_BlankGivesEmptyObject ==
    (IsBlank(vHist[1]) /\ Len(vHist) >= 2) => vHist[2] = "{}"

\* C10: for content that is JSON, the text written is accepted again, and
\* the text written for it is the same text.
C10_Idempotent ==
    ContentIsJson(vHist[1])
        => (~vRejected /\ (Len(vHist) = 3 => vHist[3] = vHist[2]))

C10_Witness ==
    /\ Len(vHist) = 3
    /\ ContentIsJson(vHist[1])
    /\ vHist[1] = "{\"d\":1,\"1\":2,\"d\":[{}],\"0\":\"a\\\"\\n\"}"
    /\ vHist[2] # vHist[1]

\* C11 as claimed: opening the editor posts exactly one message, and its text
\* is the 4-space pretty-printed form of the document's text.
C11_InitialPushCanonical ==
    last.op = "open"
        => posted = <<Message("vuejsoneditor.updateFromExtension",
                              CanonicalText(docText))>>

\* C11 as amended: opening the editor posts exactly one message, of type
\* updateFromExtension, and its text is the document's text as it is.
C11_InitialPushRaw ==
    last.op = "open"
        => posted = <<Message("vuejsoneditor.updateFromExtension", docText)>>

C11_Witness ==
    /\ last.op = "open"
    /\ Len(posted) = 1
    /\ ContentIsJson(docText)
    /\ posted[1].text # CanonicalText(docText)

\* C12: with two sessions on two documents, each session's notice is the one
\* it would have had the provider received that session's messages only, and
\* a message is handled with the outcome it would have had then.
C12_SessionsIndependent ==
    /\ \A s \in Sessions : sNotice[s] = aloneNotice[s]
    /\ sLast.threw = sLast.aloneThrew

\* C13: a Plain change of the document that no edit committed for the view
\* caused, dispatched while the view is visible, is posted to the view with
\* the document's text, whatever message the view sent before.
C13_ExternalForwarded ==
    (/\ ChangeDispatched
     /\ last.event.reason = ReasonNone
     /\ ~last.event.fromView
     /\ visible)
        => posted = <<Message("vuejsoneditor.updateFromExtension", docText)>>

\* C14: a Plain change dispatched while isUpdateFromWebview is set clears the
\* flag, posts nothing and leaves isBuffer as it was, the view visible or not.
C14_EchoCheckFirst ==
    [][(/\ DocumentChanged
        /\ Head(events).reason = ReasonNone
        /\ isUpdateFromWebview)
          => (/\ ~isUpdateFromWebview'
              /\ posted' = <<>>
              /\ isBuffer' = isBuffer)]_vars

\* C15: isBuffer is set only while the view is hidden; it becomes set only
\* when a change of the document is dispatched while the view is hidden, and
\* it is reset in the step in which the view becomes visible and the document's
\* text is posted.
C15_PendingOnlyWhileHidden ==
    [][/\ isBuffer => ~visible
       /\ isBuffer' => ~visible'
       /\ (~isBuffer /\ isBuffer')
             => (/\ last'.op = "documentChanged"
                 /\ last'.event.uri = DocUri
                 /\ last'.event.nChanges # 0
                 /\ ~visible)
       /\ (isBuffer /\ ~isBuffer')
             => (/\ last'.op = "viewState"
                 /\ visible'
                 /\ posted' = <<Message("vuejsoneditor.updateFromExtension",
                                        docText')>>)]_vars

C15_Witness ==
    /\ ChangeDispatched
    /\ ~last.event.fromView
    /\ isBuffer
    /\ ~visible
    /\ suppressed = 1
    /\ posted = <<>>

\* C16: since a view's updateFromWebview message at most one Plain change is
\* left unposted because isUpdateFromWebview was set; once one was, every
\* Plain change dispatched while the view is visible is posted with the
\* document's text, until the view's next updateFromWebview message.
C16_OneShot ==
    [][/\ echoes' <= 1
       /\ (/\ DocumentChanged
           /\ Head(events).reason = ReasonNone
           /\ visible
           /\ echoes >= 1)
             => posted' = <<Message("vuejsoneditor.updateFromExtension",
                                    docText)>>]_vars

C16_Witness ==
    /\ ChangeDispatched
    /\ last.event.reason = ReasonNone
    /\ visible
    /\ echoes = 1
    /\ posted = <<Message("vuejsoneditor.updateFromExtension", docText)>>

\* C17: once onDidDispose has run, no listener of the session asks the host
\* to close an editor.
C17_NoReactionAfterClose ==
    (disposed /\ issued.by = "visibleTextEditors") => issued.ids = <<>>

\* C18: when the visible editors change and at most one of them shows the
\* session's document, the listener asks the host to close none.
C18_NoDuplicateNoClose ==
    (/\ issued.by = "visibleTextEditors"
     /\ Cardinality(ShowingDocument(editors)) <= 1)
        => issued.ids = <<>>

\* C19: a noValidJson message received while the session has no active
\* notice creates one, so that after every noValidJson message a notice is
\* active.
C19_NoticeAfterValidationFailed ==
    last.op = "noValidJson" => jsonErrorMsg = "active"

\* C20: handling an updateFromWebview message whose content is JSON ends
\* without an error, with isValidJson set and no notice active.
C20_RecoveryNeverFails ==
    (last.op = "fromView" /\ ContentIsJson(last.content))
        => (~last.threw /\ isValidJson /\ jsonErrorMsg # "active")

====
